---------------------------- MODULE Spec2Model ----------------------------
(***************************************************************************)
(* IPAddressManager (src/api/network/app/utils/ipam.py): CIDR validation,  *)
(* containment, subnet generation and host allocation, as the code         *)
(* computes them through Python's ipaddress module.                        *)
(*                                                                         *)
(* An address is a sequence of digits, most significant first: 4 digits    *)
(* of 8 bits for IPv4 (the octets), 8 digits of 16 bits for IPv6 (the      *)
(* hextets).  A text is the record of what the parser reads in a string:   *)
(* the address family its address part is written in, the written fields,  *)
(* whether an IPv4 octet is written with a leading zero, and the part      *)
(* after the slash.                                                        *)
(***************************************************************************)
EXTENDS Integers, Sequences, FiniteSets, TLC

VARIABLES
    \* a call of an IPAddressManager method: the method, its arguments, its outcome
    op, args, result,
    \* the addresses a caller that allocates one after the other holds
    allocated,
    \* the stored records (the tenants, networks and subnets tables) and the
    \* requests in progress
    tenants, networks, subnets, requests,
    \* a BasePhase object, the lines of its PhaseLogger file, the messages of
    \* its logger, and the frame of the run() call in progress
    phase, phase_logger, logger, frame,
    \* a CloudInstaller object and the frame of its run_non_interactive /
    \* run_phases call
    installer, loop

ipamVars == <<op, args, result>>

storeVars == <<tenants, networks, subnets, requests>>

phaseVars == <<phase, phase_logger, logger, frame>>

installerVars == <<installer, loop>>

vars == <<ipamVars, allocated, storeVars, phaseVars, installerVars>>

\* Longest list of used addresses a caller passes.
MaxUsed == 3

\* Largest count a caller asks of generate_subnets.
MaxCount == 5

---------------------------------------------------------------------------
(* Address arithmetic of the ipaddress module, on digit sequences.         *)

NDigits(version) == IF version = 4 THEN 4 ELSE 8

DigitBits(version) == IF version = 4 THEN 8 ELSE 16

max_prefixlen(version) == IF version = 4 THEN 32 ELSE 128

RECURSIVE Pow2(_)
Pow2(n) == IF n <= 0 THEN 1 ELSE 2 * Pow2(n - 1)

Min(a, b) == IF a <= b THEN a ELSE b

Max(a, b) == IF a >= b THEN a ELSE b

\* Number of host bits of digit i under a prefix of length p.
HostBits(version, p, i) ==
    LET B == DigitBits(version)
        kept == Max(0, Min(B, p - B * (i - 1)))
    IN  B - kept

\* address & netmask
NetworkOf(version, digits, p) ==
    [i \in 1..NDigits(version) |->
        digits[i] - (digits[i] % Pow2(HostBits(version, p, i)))]

\* network_address | hostmask
BroadcastOf(version, digits, p) ==
    [i \in 1..NDigits(version) |->
        (digits[i] - (digits[i] % Pow2(HostBits(version, p, i))))
            + Pow2(HostBits(version, p, i)) - 1]

\* Numeric order of two addresses of one version.
RECURSIVE DigitsLess(_, _, _)
DigitsLess(a, b, i) ==
    IF i > Len(a) THEN FALSE
    ELSE IF a[i] # b[i] THEN a[i] < b[i]
    ELSE DigitsLess(a, b, i + 1)

AddrLT(a, b) == DigitsLess(a, b, 1)

AddrLE(a, b) == a = b \/ AddrLT(a, b)

\* a + k for a small k >= 0, carrying from the last digit; the sum wraps at
\* the top of the address space (the callers never step past a broadcast).
RECURSIVE AddDigits(_, _, _, _)
AddDigits(d, i, k, base) ==
    IF i = 0 \/ k = 0 THEN d
    ELSE LET s == d[i] + k
         IN  AddDigits([j \in DOMAIN d |-> IF j = i THEN s % base ELSE d[j]],
                       i - 1, s \div base, base)

AddrPlus(version, digits, k) ==
    AddDigits(digits, NDigits(version), k, Pow2(DigitBits(version)))

\* a - 1 for an address above zero.
RECURSIVE DecDigits(_, _, _)
DecDigits(d, i, base) ==
    IF i = 0 THEN d
    ELSE IF d[i] > 0 THEN [j \in DOMAIN d |-> IF j = i THEN d[i] - 1 ELSE d[j]]
    ELSE DecDigits([j \in DOMAIN d |-> IF j = i THEN base - 1 ELSE d[j]],
                   i - 1, base)

AddrPred(version, digits) ==
    DecDigits(digits, NDigits(version), Pow2(DigitBits(version)))

---------------------------------------------------------------------------
(* Texts.                                                                  *)

NoFields == << >>

\* fam: "v4" dotted quad, "v6" colon hex, "junk" anything else.
\* lz: an IPv4 octet is written with a leading zero ("010").
\* sfx: "none" no slash, "len" a decimal prefix length n, "mask" a dotted
\*      netmask of n leading ones, "junk" anything else after the slash.
Text(fam, fields, lz, sfx, n) ==
    [fam |-> fam, fields |-> fields, lz |-> lz, sfx |-> sfx, n |-> n]

JunkText == Text("junk", NoFields, FALSE, "none", 0)

FamOf(version) == IF version = 4 THEN "v4" ELSE "v6"

\* str(address)
StrAddress(version, digits) == Text(FamOf(version), digits, FALSE, "none", 0)

\* str(network)
StrNetwork(net) ==
    Text(FamOf(net.version), net.network_address, FALSE, "len", net.prefixlen)

---------------------------------------------------------------------------
(* Parsing, as ipaddress.ip_address and ipaddress.ip_network (strict) do   *)
(* it.  Both raise ValueError on a text they do not accept.                *)

\* IPv4Address(text) / IPv6Address(text) accept the address part: the
\* family's notation, every field in range, no leading zero in an octet.
AddressPartOk(t, version) ==
    /\ t.fam = FamOf(version)
    /\ Len(t.fields) = NDigits(version)
    /\ \A i \in 1..Len(t.fields) :
           t.fields[i] >= 0 /\ t.fields[i] < Pow2(DigitBits(version))
    /\ (version = 4 => ~t.lz)

\* _make_netmask: the prefix length the part after the slash denotes, or -1.
\* No slash means max_prefixlen; a dotted netmask is read for IPv4 only.
PrefixOfSuffix(t, version) ==
    CASE t.sfx = "none" -> max_prefixlen(version)
      [] t.sfx = "len"  ->
            IF t.n >= 0 /\ t.n <= max_prefixlen(version) THEN t.n ELSE -1
      [] t.sfx = "mask" ->
            IF version = 4 /\ t.n >= 0 /\ t.n <= 32 THEN t.n ELSE -1
      [] OTHER -> -1

NoAddress == [ok |-> FALSE, version |-> 0, digits |-> NoFields]

\* ipaddress.ip_address(text); ok = FALSE stands for the ValueError.
ip_address(t) ==
    IF t.sfx = "none" /\ AddressPartOk(t, 4)
        THEN [ok |-> TRUE, version |-> 4, digits |-> t.fields]
    ELSE IF t.sfx = "none" /\ AddressPartOk(t, 6)
        THEN [ok |-> TRUE, version |-> 6, digits |-> t.fields]
    ELSE NoAddress

NoNetwork(error) ==
    [ok |-> FALSE, version |-> 0, network_address |-> NoFields,
     prefixlen |-> 0, error |-> error]

\* ip_network(text, strict=False): host bits are masked off, not refused.
NetworkOfVersion_NonStrict(t, version) ==
    LET p == PrefixOfSuffix(t, version)
    IN  IF ~AddressPartOk(t, version) \/ p < 0
            THEN NoNetwork("does not appear to be an IPv4 or IPv6 network")
        ELSE [ok |-> TRUE, version |-> version,
              network_address |-> NetworkOf(version, t.fields, p),
              prefixlen |-> p, error |-> ""]

\* IPv4Network(text, strict=True) / IPv6Network(text, strict=True).
NetworkOfVersion(t, version) ==
    LET p == PrefixOfSuffix(t, version)
    IN  IF ~AddressPartOk(t, version) \/ p < 0
            THEN NoNetwork("does not appear to be an IPv4 or IPv6 network")
        ELSE IF NetworkOf(version, t.fields, p) # t.fields
            THEN NoNetwork("has host bits set")
        ELSE [ok |-> TRUE, version |-> version, network_address |-> t.fields,
              prefixlen |-> p, error |-> ""]

\* ipaddress.ip_network(text): IPv4 first, then IPv6; ok = FALSE stands for
\* the ValueError, error for its message.
ip_network(t) ==
    IF t.fam = "v4" THEN NetworkOfVersion(t, 4)
    ELSE IF t.fam = "v6" THEN NetworkOfVersion(t, 6)
    ELSE NoNetwork("does not appear to be an IPv4 or IPv6 network")

broadcast_address(net) ==
    BroadcastOf(net.version, net.network_address, net.prefixlen)

---------------------------------------------------------------------------
(* What a call hands back: a returned value or a raised exception.         *)

Outcome(kind, type, b, s, l) ==
    [kind |-> kind, type |-> type, b |-> b, s |-> s, l |-> l]

RetBool(b) == Outcome("return", "bool", b, JunkText, << >>)

RetNone == Outcome("return", "NoneType", FALSE, JunkText, << >>)

RetStr(s) == Outcome("return", "str", FALSE, s, << >>)

RetList(l) == Outcome("return", "list", FALSE, JunkText, l)

Raise(type) == Outcome("raise", type, FALSE, JunkText, << >>)

---------------------------------------------------------------------------
(* IPAddressManager.                                                       *)

validate_cidr(cidr) ==
    IF ip_network(cidr).ok THEN RetBool(TRUE) ELSE RetBool(FALSE)

\* A proper-subnet test: a block is not taken to lie within itself.
subnet_of_Proper(a, b) ==
    IF a.version # b.version THEN Raise("TypeError")
    ELSE RetBool(/\ AddrLE(b.network_address, a.network_address)
                 /\ AddrLE(broadcast_address(a), broadcast_address(b))
                 /\ a.prefixlen # b.prefixlen)

\* network.overlaps(other) in the place of network.subnet_of(other).
subnet_of_Overlaps(a, b) ==
    IF a.version # b.version THEN Raise("TypeError")
    ELSE RetBool(/\ AddrLE(a.network_address, broadcast_address(b))
                 /\ AddrLE(b.network_address, broadcast_address(a)))

\* IPv4Network.subnet_of / _is_subnet_of: TypeError on different versions,
\* which the caller's "except ValueError" does not catch.
subnet_of(a, b) ==
    IF a.version # b.version THEN Raise("TypeError")
    ELSE RetBool(/\ AddrLE(b.network_address, a.network_address)
                 /\ AddrLE(broadcast_address(a), broadcast_address(b)))

is_subnet_of(parent_cidr, subnet_cidr) ==
    LET parent_net == ip_network(parent_cidr)
        subnet_net == ip_network(subnet_cidr)
    IN  IF ~parent_net.ok \/ ~subnet_net.ok THEN RetBool(FALSE)
        ELSE subnet_of(subnet_net, parent_net)

\* Number of blocks network.subnets(new_prefix=new_prefix) yields, or -1 for
\* its ValueError.  A network of max_prefixlen yields itself before
\* new_prefix is looked at.
SubnetsCount(net, new_prefix) ==
    IF net.prefixlen = max_prefixlen(net.version) THEN 1
    ELSE IF new_prefix < net.prefixlen THEN -1
    ELSE IF new_prefix > max_prefixlen(net.version) THEN -1
    ELSE Pow2(new_prefix - net.prefixlen)

\* The blocks advance by the step of the new prefix length but keep the
\* parent's prefix length.
SubnetAt_ParentPrefix(net, new_prefix, i) ==
    IF net.prefixlen = max_prefixlen(net.version) THEN net
    ELSE LET B     == DigitBits(net.version)
             shift == max_prefixlen(net.version) - new_prefix
         IN  [net EXCEPT
                !.network_address =
                    AddDigits(net.network_address,
                              NDigits(net.version) - (shift \div B),
                              i * Pow2(shift % B), Pow2(B))]

\* The blocks are yielded from the second one on.
SubnetAt_SkipFirst(net, new_prefix, i) ==
    IF net.prefixlen = max_prefixlen(net.version) THEN net
    ELSE LET B     == DigitBits(net.version)
             shift == max_prefixlen(net.version) - new_prefix
         IN  [net EXCEPT
                !.network_address =
                    AddDigits(net.network_address,
                              NDigits(net.version) - (shift \div B),
                              (i + 1) * Pow2(shift % B), Pow2(B)),
                !.prefixlen = new_prefix]

\* The i-th block (from 0) of network.subnets(new_prefix=new_prefix): the
\* network address advances by 2^(max_prefixlen - new_prefix) per block.
SubnetAt(net, new_prefix, i) ==
    IF net.prefixlen = max_prefixlen(net.version) THEN net
    ELSE LET B     == DigitBits(net.version)
             shift == max_prefixlen(net.version) - new_prefix
         IN  [net EXCEPT
                !.network_address =
                    AddDigits(net.network_address,
                              NDigits(net.version) - (shift \div B),
                              i * Pow2(shift % B), Pow2(B)),
                !.prefixlen = new_prefix]

\* len(subnets[:count]): a negative count drops that many from the end.
SliceLen(len, count) ==
    IF count >= 0 THEN Min(count, len) ELSE Max(len + count, 0)

\* list(...) of the whole generator: a CPython list holds at most
\* 2^ListIndexBits entries (PY_SSIZE_T_MAX / 8 on a 64-bit build), so a
\* generator of more than that ends in MemoryError, which no method of the
\* class catches.  Below that limit the list is taken to fit in memory.
ListIndexBits == 60

\* The split yields more blocks than a list holds.
SplitUnlistable(net, new_prefix) ==
    /\ net.prefixlen < max_prefixlen(net.version)
    /\ new_prefix >= net.prefixlen
    /\ new_prefix <= max_prefixlen(net.version)
    /\ new_prefix - net.prefixlen > ListIndexBits

generate_subnets(parent_cidr, new_prefix, count) ==
    LET parent_net == ip_network(parent_cidr)
    IN  IF ~parent_net.ok THEN Raise("ValueError")
        ELSE IF SplitUnlistable(parent_net, new_prefix)
            THEN Raise("MemoryError")
        ELSE IF SubnetsCount(parent_net, new_prefix) < 0
            THEN Raise("ValueError")
        ELSE RetList([i \in 1..SliceLen(SubnetsCount(parent_net, new_prefix),
                                        count) |->
                         StrNetwork(SubnetAt(parent_net, new_prefix, i - 1))])

\* network.hosts(): the first and the last address it yields.  IPv4 leaves
\* out network and broadcast address, IPv6 the network address only; a
\* /31 or /127 yields both its addresses, a /32 or /128 its one address.
FirstHost(net) ==
    IF net.prefixlen >= max_prefixlen(net.version) - 1
        THEN net.network_address
    ELSE AddrPlus(net.version, net.network_address, 1)

LastHost(net) ==
    IF net.prefixlen >= max_prefixlen(net.version) - 1 \/ net.version = 6
        THEN broadcast_address(net)
    ELSE AddrPred(net.version, broadcast_address(net))

\* for host in subnet.hosts(): if host not in used_set: return str(host)
RECURSIVE FirstUnused(_, _, _, _)
FirstUnused(version, host, last, used_set) ==
    IF AddrLT(last, host) THEN RetNone
    ELSE IF [ok |-> TRUE, version |-> version, digits |-> host] \notin used_set
        THEN RetStr(StrAddress(version, host))
    ELSE IF host = last THEN RetNone
    ELSE FirstUnused(version, AddrPlus(version, host, 1), last, used_set)

get_available_ip(subnet_cidr, used_ips) ==
    LET subnet == ip_network(subnet_cidr)
        used_set == {ip_address(used_ips[i]) : i \in 1..Len(used_ips)}
    IN  IF ~subnet.ok THEN RetNone
        ELSE IF \E a \in used_set : ~a.ok THEN RetNone
        ELSE FirstUnused(subnet.version, FirstHost(subnet), LastHost(subnet),
                         used_set)

\* An int too wide for a machine word, kept as 2^exp - minus.
TwoToThe(exp, minus) == [exp |-> exp, minus |-> minus]

\* str(network.netmask), str(network.hostmask)
netmask(net) ==
    [i \in 1..NDigits(net.version) |->
        Pow2(DigitBits(net.version))
            - Pow2(HostBits(net.version, net.prefixlen, i))]

hostmask(net) ==
    [i \in 1..NDigits(net.version) |->
        Pow2(HostBits(net.version, net.prefixlen, i)) - 1]

\* network.num_addresses
num_addresses(net) == TwoToThe(max_prefixlen(net.version) - net.prefixlen, 0)

\* A dict value that is a str, or None.
Some(s) == [present |-> TRUE, s |-> s]

None == [present |-> FALSE, s |-> JunkText]

\* list(network.hosts()) has more entries than a list holds.
HostsUnlistable(net) ==
    max_prefixlen(net.version) - net.prefixlen > ListIndexBits

\* A returned dict: l holds its content, nothing for the empty dict.
RetDict(l) == Outcome("return", "dict", FALSE, JunkText, l)

\* The dict of a parsed network.  usable_hosts is num_addresses - 2 for
\* every IPv4 network; list(network.hosts()) is never empty, so first_usable
\* and last_usable are always hosts()[0] and hosts()[-1].
NetworkInfo(network) ==
    [network_address   |-> StrAddress(network.version, network.network_address),
     broadcast_address |-> StrAddress(network.version, broadcast_address(network)),
     netmask           |-> StrAddress(network.version, netmask(network)),
     hostmask          |-> StrAddress(network.version, hostmask(network)),
     prefixlen         |-> network.prefixlen,
     num_addresses     |-> num_addresses(network),
     usable_hosts      |->
        IF network.version = 4
            THEN TwoToThe(max_prefixlen(4) - network.prefixlen, 2)
        ELSE num_addresses(network),
     first_usable      |-> Some(StrAddress(network.version, FirstHost(network))),
     last_usable       |-> Some(StrAddress(network.version, LastHost(network)))]

calculate_network_info(cidr) ==
    LET network == ip_network(cidr)
    IN  IF ~network.ok THEN RetDict(<< >>)
        ELSE IF HostsUnlistable(network) THEN Raise("MemoryError")
        ELSE RetDict(<<NetworkInfo(network)>>)

\* GET /utils/calculate-network/<cidr>: the response, or the exception the
\* handler lets through.
Response(status, l) == Outcome("return", status, FALSE, JunkText, l)

calculate_network(cidr) ==
    LET info == calculate_network_info(cidr)
    IN  IF info.kind = "raise" THEN info
        ELSE IF info.l = << >> THEN Response("400 Invalid CIDR notation", << >>)
        ELSE Response("200", info.l)

\* create_subnet without its containment check.
create_subnet_checks_NoContainment(network_cidr, cidr) ==
    IF validate_cidr(cidr) = RetBool(FALSE)
        THEN Response("400 Invalid CIDR notation", << >>)
    ELSE Response("passed", << >>)

\* create_subnet, its two checks of data['cidr'] against network.cidr.
create_subnet_checks(network_cidr, cidr) ==
    IF validate_cidr(cidr) = RetBool(FALSE)
        THEN Response("400 Invalid CIDR notation", << >>)
    ELSE IF is_subnet_of(network_cidr, cidr).kind = "raise"
        THEN is_subnet_of(network_cidr, cidr)
    ELSE IF is_subnet_of(network_cidr, cidr) = RetBool(FALSE)
        THEN Response("400 Subnet must be within the parent network CIDR", << >>)
    ELSE Response("passed", << >>)

---------------------------------------------------------------------------
(* The texts callers pass.                                                 *)

\* Most bits a parent is split by in one generate_subnets call.
MaxSplitBits == 3

Zero6 == <<0, 0, 0, 0, 0, 0, 0, 0>>

Low6(x) == <<0, 0, 0, 0, 0, 0, 0, x>>

V4Fields ==
    { <<10, 0, 0, 0>>, <<10, 0, 0, 1>>, <<10, 0, 0, 2>>, <<10, 0, 0, 4>>,
      <<10, 0, 1, 0>>, <<10, 1, 0, 0>>, <<0, 0, 0, 0>>,
      <<255, 255, 255, 254>>, <<256, 0, 0, 0>> }

V6Fields == { Zero6, Low6(1), Low6(2), Low6(4) }

V4Lens == {0, 8, 16, 24, 29, 30, 31, 32, 33}

V6Lens == {0, 64, 125, 126, 127, 128, 129}

CidrTexts ==
    {Text("v4", f, FALSE, "len", n) : f \in V4Fields, n \in V4Lens}
    \cup {Text("v4", f, FALSE, "none", 0) : f \in V4Fields}
    \cup {Text("v4", f, FALSE, "mask", 24) : f \in V4Fields}
    \cup {Text("v4", f, FALSE, "junk", 0) : f \in V4Fields}
    \cup {Text("v4", <<10, 0, 0, 0>>, TRUE, "len", n) : n \in {8, 30}}
    \cup {Text("v6", f, FALSE, "len", n) : f \in V6Fields, n \in V6Lens}
    \cup {Text("v6", f, FALSE, "none", 0) : f \in V6Fields}
    \cup {Text("v6", Zero6, FALSE, "mask", 64)}
    \cup {JunkText}

\* The blocks get_available_ip is asked about.
AllocTexts ==
    {t \in CidrTexts :
        \/ t.fam = "junk"
        \/ /\ t.fam = "v4"
           /\ t.fields \in {<<10, 0, 0, 0>>, <<10, 0, 0, 1>>}
           /\ t.sfx \in {"len", "none"}
           /\ t.n \in {0, 24, 29, 30, 31, 32, 33}
        \/ /\ t.fam = "v6"
           /\ t.fields \in {Zero6, Low6(1)}
           /\ t.sfx \in {"len", "none"}
           /\ t.n \in {0, 64, 126, 127, 128, 129}}

\* The entries of a used-address list: addresses in canonical form, one
\* written with leading zeros (010.000.000.001), and one that is no address.
UsedTexts ==
    {Text("v4", f, FALSE, "none", 0) :
        f \in {<<10, 0, 0, 0>>, <<10, 0, 0, 1>>, <<10, 0, 0, 2>>}}
    \cup {Text("v4", <<10, 0, 0, 1>>, TRUE, "none", 0)}
    \cup {Text("v6", f, FALSE, "none", 0) :
        f \in {Zero6, Low6(1), Low6(2), Low6(3)}}
    \cup {JunkText}

RECURSIVE SeqsUpTo(_, _)
SeqsUpTo(S, n) ==
    IF n = 0 THEN {<< >>}
    ELSE LET shorter == SeqsUpTo(S, n - 1)
         IN  shorter \cup {Append(q, x) : q \in shorter, x \in S}

UsedLists == SeqsUpTo(UsedTexts, MaxUsed)

NewPrefixes == {-1, 0, 8, 16, 23, 24, 30, 31, 32, 33, 64, 126, 127, 128, 129}

Counts == (-2)..MaxCount

\* The split is either small, or too large for any list:
\* list(parent_net.subnets(...)) holds 2^(new_prefix - prefixlen) blocks.
SplitFits(parent_cidr, new_prefix) ==
    LET net == ip_network(parent_cidr)
    IN  /\ net.ok
        /\ net.prefixlen < max_prefixlen(net.version)
        /\ new_prefix >= net.prefixlen
        /\ new_prefix <= max_prefixlen(net.version)
        => \/ new_prefix - net.prefixlen <= MaxSplitBits
           \/ new_prefix - net.prefixlen > ListIndexBits

---------------------------------------------------------------------------
(* The calls.                                                              *)

Args(cidr, other, new_prefix, count, used_ips) ==
    [cidr |-> cidr, other |-> other, new_prefix |-> new_prefix,
     count |-> count, used_ips |-> used_ips]

\* Requests received over a run of the service.
MaxRequests == 4

RequestIds == 1..MaxRequests

NoRequest ==
    [kind |-> "none", pc |-> "new", parent |-> 0, name |-> "",
     cidr |-> JunkText, status |-> 0, error |-> ""]

NoPhase ==
    [constructed |-> FALSE, started_at |-> 0, completed_at |-> 0,
     success |-> FALSE]

NoFrame == [pc |-> "none", call |-> 0, hooks |-> << >>, returns |-> "none"]

NoInstaller == [constructed |-> FALSE, interactive |-> FALSE, loaded |-> FALSE]

NoLoop ==
    [caller |-> "none", pc |-> "none", phase_ids |-> << >>, i |-> 0,
     started |-> << >>, failed |-> {}, continued |-> {}, declined |-> ""]

\* No call in progress, nothing stored, no request received, a phase object
\* and an installer not yet constructed.
Init ==
    /\ op = "idle"
    /\ args = Args(JunkText, JunkText, 0, 0, << >>)
    /\ result = RetNone
    /\ allocated = << >>
    /\ tenants = {} /\ networks = {} /\ subnets = {}
    /\ requests = [r \in RequestIds |-> NoRequest]
    /\ phase = NoPhase /\ phase_logger = << >> /\ logger = << >>
    /\ frame = NoFrame
    /\ installer = NoInstaller /\ loop = NoLoop

ValidateCidr ==
    /\ op = "idle"
    /\ \E cidr \in CidrTexts :
           /\ op' = "validate_cidr"
           /\ args' = Args(cidr, JunkText, 0, 0, << >>)
           /\ result' = validate_cidr(cidr)
    /\ UNCHANGED <<allocated, storeVars, phaseVars, installerVars>>

IsSubnetOf ==
    /\ op = "idle"
    /\ \E parent_cidr \in CidrTexts, subnet_cidr \in CidrTexts :
           /\ op' = "is_subnet_of"
           /\ args' = Args(parent_cidr, subnet_cidr, 0, 0, << >>)
           /\ result' = is_subnet_of(parent_cidr, subnet_cidr)
    /\ UNCHANGED <<allocated, storeVars, phaseVars, installerVars>>

GenerateSubnets ==
    /\ op = "idle"
    /\ \E parent_cidr \in CidrTexts, new_prefix \in NewPrefixes, count \in Counts :
           /\ SplitFits(parent_cidr, new_prefix)
           /\ op' = "generate_subnets"
           /\ args' = Args(parent_cidr, JunkText, new_prefix, count, << >>)
           /\ result' = generate_subnets(parent_cidr, new_prefix, count)
    /\ UNCHANGED <<allocated, storeVars, phaseVars, installerVars>>

GetAvailableIp ==
    /\ op = "idle"
    /\ \E subnet_cidr \in AllocTexts, used_ips \in UsedLists :
           /\ op' = "get_available_ip"
           /\ args' = Args(subnet_cidr, JunkText, 0, 0, used_ips)
           /\ result' = get_available_ip(subnet_cidr, used_ips)
    /\ UNCHANGED <<allocated, storeVars, phaseVars, installerVars>>

CalculateNetworkInfo ==
    /\ op = "idle"
    /\ \E cidr \in CidrTexts :
           /\ op' = "calculate_network_info"
           /\ args' = Args(cidr, JunkText, 0, 0, << >>)
           /\ result' = calculate_network_info(cidr)
    /\ UNCHANGED <<allocated, storeVars, phaseVars, installerVars>>

CalculateNetwork ==
    /\ op = "idle"
    /\ \E cidr \in CidrTexts :
           /\ op' = "calculate_network"
           /\ args' = Args(cidr, JunkText, 0, 0, << >>)
           /\ result' = calculate_network(cidr)
    /\ UNCHANGED <<allocated, storeVars, phaseVars, installerVars>>

\* The caller has taken the outcome and is free to make its next call.
Return ==
    /\ op # "idle"
    /\ op' = "idle"
    /\ args' = Args(JunkText, JunkText, 0, 0, << >>)
    /\ result' = RetNone
    /\ allocated' = << >>
    /\ UNCHANGED <<storeVars, phaseVars, installerVars>>

Next ==
    \/ ValidateCidr
    \/ IsSubnetOf
    \/ GenerateSubnets
    \/ GetAvailableIp
    \/ CalculateNetworkInfo
    \/ CalculateNetwork
    \/ Return

Spec == Init /\ [][Next]_vars

---------------------------------------------------------------------------
(* A caller that allocates one address after the other: it starts from an  *)
(* empty used list, adds each address it is handed to the list before the  *)
(* next call, and after None may call again with the same list or a longer *)
(* one.                                                                    *)

\* Addresses such a caller adds to its used list after None.
MaxExtra == 2

\* The blocks allocated from: valid, of at most 8 addresses.
SequenceBlocks ==
    {t \in AllocTexts :
        /\ t.sfx = "len" /\ ip_network(t).ok
        /\ max_prefixlen(ip_network(t).version) - ip_network(t).prefixlen <= 3}

ExtraTexts == {t \in UsedTexts : ip_address(t).ok}

AllocateFirst ==
    /\ op = "idle"
    /\ \E subnet_cidr \in SequenceBlocks :
           /\ op' = "get_available_ip"
           /\ args' = Args(subnet_cidr, JunkText, 0, 0, << >>)
           /\ result' = get_available_ip(subnet_cidr, << >>)
    /\ allocated' = << >>
    /\ UNCHANGED <<storeVars, phaseVars, installerVars>>

AllocateNext ==
    /\ op = "get_available_ip" /\ result.type = "str"
    /\ allocated' = Append(allocated, result.s)
    /\ args' = [args EXCEPT !.used_ips = Append(@, result.s)]
    /\ result' = get_available_ip(args.cidr, Append(args.used_ips, result.s))
    /\ UNCHANGED <<op, storeVars, phaseVars, installerVars>>

CallAgain ==
    /\ op = "get_available_ip" /\ result = RetNone
    /\ Len(args.used_ips) < Len(allocated) + MaxExtra
    /\ \E more \in {<< >>} \cup {<<x>> : x \in ExtraTexts} :
           /\ args' = [args EXCEPT !.used_ips = @ \o more]
           /\ result' = get_available_ip(args.cidr, args.used_ips \o more)
    /\ UNCHANGED <<op, allocated, storeVars, phaseVars, installerVars>>

AllocNext ==
    \/ AllocateFirst
    \/ AllocateNext
    \/ CallAgain
    \/ Return

SpecAlloc == Init /\ [][AllocNext]_vars

---------------------------------------------------------------------------
(* The network API (src/api/network/app/api/network_api.py): the requests  *)
(* that create tenants, networks and subnets and delete networks, over the *)
(* tables they store.  A handler runs in its own thread with its own       *)
(* session; between two of its database accesses other handlers may run.   *)
(* A record's id is the number of the request that stored it (a fresh      *)
(* uuid4 in the code).                                                     *)

Names == {"a", "b"}

\* The CIDR texts of the requests: 10.0.0.0/16, 10.0.0.0/24 within it,
\* 10.1.0.0/16 outside it, 10.0.0.1/16 (host bits set) and ::/64.
ApiCidrs ==
    { Text("v4", <<10, 0, 0, 0>>, FALSE, "len", 16),
      Text("v4", <<10, 0, 0, 0>>, FALSE, "len", 24),
      Text("v4", <<10, 1, 0, 0>>, FALSE, "len", 16),
      Text("v4", <<10, 0, 0, 1>>, FALSE, "len", 16),
      Text("v6", Zero6, FALSE, "len", 64) }

\* An id no record has.
NoId == 0

Request(kind, pc, parent, name, cidr, status, error) ==
    [kind |-> kind, pc |-> pc, parent |-> parent, name |-> name,
     cidr |-> cidr, status |-> status, error |-> error]

\* return jsonify(...), status: the handler is over; its frame is gone.
Respond(kind, status, error) ==
    Request(kind, "done", NoId, "", JunkText, status, error)

\* Model.query.get(id)
Get(table, id) == {row \in table : row.id = id}

\* The tenants table (the Tenant model is not among the sources): it is
\* taken to hold at most one row of a name, so that db.session.commit()
\* fails on a second one.
TenantInsertFails(name) == \E t \in tenants : t.name = name

\* The requests arrive one after the other; r is the next one to arrive.
Arrives(r) ==
    /\ requests[r].pc = "new"
    /\ \A q \in RequestIds : q < r => requests[q].pc # "new"

\* POST /tenants, up to the query for a tenant of that name.
CreateTenantCheck(r) ==
    /\ Arrives(r)
    /\ \E name \in Names :
           requests' = [requests EXCEPT ![r] =
               IF \E t \in tenants : t.name = name
                   THEN Respond("create_tenant", 409,
                                "Tenant with this name already exists")
               ELSE Request("create_tenant", "insert", NoId, name, JunkText, 0, "")]
    /\ UNCHANGED <<tenants, networks, subnets>>
    /\ UNCHANGED <<ipamVars, allocated, phaseVars, installerVars>>

\* db.session.add(tenant); db.session.commit()
CreateTenantInsert(r) ==
    /\ requests[r].kind = "create_tenant" /\ requests[r].pc = "insert"
    /\ IF TenantInsertFails(requests[r].name)
           THEN /\ requests' = [requests EXCEPT ![r] =
                       Respond("create_tenant", 500, "IntegrityError")]
                /\ UNCHANGED tenants
       ELSE /\ tenants' = tenants \cup {[id |-> r, name |-> requests[r].name]}
            /\ requests' = [requests EXCEPT ![r] = Respond("create_tenant", 201, "")]
    /\ UNCHANGED <<networks, subnets>>
    /\ UNCHANGED <<ipamVars, allocated, phaseVars, installerVars>>

\* POST /tenants/<tenant_id>/networks, up to the CIDR validation.
CreateNetworkValidate(r) ==
    /\ Arrives(r)
    /\ \E tenant_id \in {t.id : t \in tenants} \cup {NoId},
          name \in Names, cidr \in ApiCidrs :
           requests' = [requests EXCEPT ![r] =
               IF Get(tenants, tenant_id) = {}
                   THEN Respond("create_network", 404, "Tenant not found")
               ELSE IF validate_cidr(cidr) # RetBool(TRUE)
                   THEN Respond("create_network", 400, "Invalid CIDR notation")
               ELSE Request("create_network", "check", tenant_id, name, cidr, 0, "")]
    /\ UNCHANGED <<tenants, networks, subnets>>
    /\ UNCHANGED <<ipamVars, allocated, phaseVars, installerVars>>

\* Network.query.filter_by(tenant_id=tenant_id, name=data['name']).first()
CreateNetworkCheck(r) ==
    /\ requests[r].kind = "create_network" /\ requests[r].pc = "check"
    /\ requests' = [requests EXCEPT ![r] =
           IF \E n \in networks :
                  n.tenant_id = requests[r].parent /\ n.name = requests[r].name
               THEN Respond("create_network", 409,
                            "Network with this name already exists for this tenant")
           ELSE [requests[r] EXCEPT !.pc = "insert"]]
    /\ UNCHANGED <<tenants, networks, subnets>>
    /\ UNCHANGED <<ipamVars, allocated, phaseVars, installerVars>>

\* db.session.add(network); db.session.commit()
CreateNetworkInsert(r) ==
    /\ requests[r].kind = "create_network" /\ requests[r].pc = "insert"
    /\ networks' = networks \cup
           {[id |-> r, tenant_id |-> requests[r].parent,
             name |-> requests[r].name, cidr |-> requests[r].cidr]}
    /\ requests' = [requests EXCEPT ![r] = Respond("create_network", 201, "")]
    /\ UNCHANGED <<tenants, subnets>>
    /\ UNCHANGED <<ipamVars, allocated, phaseVars, installerVars>>

\* The response create_subnet's checks lead to, as a finished request, or
\* the request going on to its name check.
AfterSubnetChecks(network_id, name, cidr) ==
    LET network == CHOOSE n \in Get(networks, network_id) : TRUE
        checks  == create_subnet_checks(network.cidr, cidr)
    IN  IF checks.kind = "raise"
            THEN Respond("create_subnet", 500, checks.type)
        ELSE IF checks.type = "passed"
            THEN Request("create_subnet", "check", network_id, name, cidr, 0, "")
        ELSE IF checks.type = "400 Invalid CIDR notation"
            THEN Respond("create_subnet", 400, "Invalid CIDR notation")
        ELSE Respond("create_subnet", 400,
                     "Subnet must be within the parent network CIDR")

\* POST /networks/<network_id>/subnets, up to the containment check.
CreateSubnetValidate(r) ==
    /\ Arrives(r)
    /\ \E network_id \in {n.id : n \in networks} \cup {NoId},
          name \in Names, cidr \in ApiCidrs :
           requests' = [requests EXCEPT ![r] =
               IF Get(networks, network_id) = {}
                   THEN Respond("create_subnet", 404, "Network not found")
               ELSE AfterSubnetChecks(network_id, name, cidr)]
    /\ UNCHANGED <<tenants, networks, subnets>>
    /\ UNCHANGED <<ipamVars, allocated, phaseVars, installerVars>>

\* Subnet.query.filter_by(network_id=network_id, name=data['name']).first()
CreateSubnetCheck(r) ==
    /\ requests[r].kind = "create_subnet" /\ requests[r].pc = "check"
    /\ requests' = [requests EXCEPT ![r] =
           IF \E sn \in subnets :
                  sn.network_id = requests[r].parent /\ sn.name = requests[r].name
               THEN Respond("create_subnet", 409,
                            "Subnet with this name already exists in this network")
           ELSE [requests[r] EXCEPT !.pc = "insert"]]
    /\ UNCHANGED <<tenants, networks, subnets>>
    /\ UNCHANGED <<ipamVars, allocated, phaseVars, installerVars>>

\* db.session.add(subnet); db.session.commit().  Whether the row of a
\* network deleted in the meantime is refused depends on the database
\* enforcing the foreign key.
CreateSubnetInsert(r) ==
    /\ requests[r].kind = "create_subnet" /\ requests[r].pc = "insert"
    /\ \E enforced \in BOOLEAN :
         IF Get(networks, requests[r].parent) = {} /\ enforced
             THEN /\ requests' = [requests EXCEPT ![r] =
                         Respond("create_subnet", 500, "IntegrityError")]
                  /\ UNCHANGED subnets
         ELSE /\ subnets' = subnets \cup
                     {[id |-> r, network_id |-> requests[r].parent,
                       name |-> requests[r].name, cidr |-> requests[r].cidr]}
              /\ requests' = [requests EXCEPT ![r] = Respond("create_subnet", 201, "")]
    /\ UNCHANGED <<tenants, networks>>
    /\ UNCHANGED <<ipamVars, allocated, phaseVars, installerVars>>

\* DELETE /networks/<network_id>, up to Network.query.get(network_id).
DeleteNetworkGet(r) ==
    /\ Arrives(r)
    /\ \E network_id \in {n.id : n \in networks} \cup {NoId} :
           requests' = [requests EXCEPT ![r] =
               IF Get(networks, network_id) = {}
                   THEN Respond("delete_network", 404, "Network not found")
               ELSE Request("delete_network", "delete", network_id, "", JunkText, 0, "")]
    /\ UNCHANGED <<tenants, networks, subnets>>
    /\ UNCHANGED <<ipamVars, allocated, phaseVars, installerVars>>

\* db.session.delete(network); db.session.commit(): the network goes with
\* its subnets (cascade='all, delete-orphan'); a network another request
\* has deleted in the meantime makes the commit fail.
DeleteNetworkCommit(r) ==
    /\ requests[r].kind = "delete_network" /\ requests[r].pc = "delete"
    /\ IF Get(networks, requests[r].parent) = {}
           THEN /\ requests' = [requests EXCEPT ![r] =
                       Respond("delete_network", 500, "StaleDataError")]
                /\ UNCHANGED <<networks, subnets>>
       ELSE /\ networks' = networks \ Get(networks, requests[r].parent)
            /\ subnets' = {sn \in subnets : sn.network_id # requests[r].parent}
            /\ requests' = [requests EXCEPT ![r] = Respond("delete_network", 200, "")]
    /\ UNCHANGED tenants
    /\ UNCHANGED <<ipamVars, allocated, phaseVars, installerVars>>

\* A step of the handler of request r.
Handle(r) ==
    \/ CreateTenantCheck(r)
    \/ CreateTenantInsert(r)
    \/ CreateNetworkValidate(r)
    \/ CreateNetworkCheck(r)
    \/ CreateNetworkInsert(r)
    \/ CreateSubnetValidate(r)
    \/ CreateSubnetCheck(r)
    \/ CreateSubnetInsert(r)
    \/ DeleteNetworkGet(r)
    \/ DeleteNetworkCommit(r)

\* No other request is between two of its steps.
Alone(r) == \A q \in RequestIds \ {r} : requests[q].pc \in {"new", "done"}

\* The requests handled one at a time.
ApiSeqNext == \E r \in RequestIds : Alone(r) /\ Handle(r)

SpecApiSeq == Init /\ [][ApiSeqNext]_vars

\* The requests handled concurrently.
ApiNext == \E r \in RequestIds : Handle(r)

SpecApi == Init /\ [][ApiNext]_vars

---------------------------------------------------------------------------
(* BasePhase (src/py/phases/base_phase.py): a phase object and the steps   *)
(* of its run().  The hooks pre_check, execute and post_check are the      *)
(* subclass's: each returns True or False, raises an Exception, or is      *)
(* interrupted (KeyboardInterrupt, which except Exception does not catch). *)
(* datetime.now() is the number of the run() call.                         *)

\* Calls of run() on one phase object.
MaxRuns == 2

HookOutcomes == {"True", "False", "Exception", "KeyboardInterrupt"}

Frame(pc, call, hooks, returns) ==
    [pc |-> pc, call |-> call, hooks |-> hooks, returns |-> returns]

Hook(name, outcome) == [name |-> name, outcome |-> outcome]

\* BasePhase.__init__
ConstructPhase ==
    /\ ~phase.constructed
    /\ phase' = [constructed |-> TRUE, started_at |-> 0, completed_at |-> 0,
                 success |-> FALSE]
    /\ phase_logger' = << >>
    /\ logger' = << >>
    /\ frame' = Frame("none", 0, << >>, "none")
    /\ UNCHANGED <<ipamVars, allocated, storeVars, installerVars>>

\* run(), up to the try: started_at, phase_logger.start(), the first message.
RunStart ==
    /\ phase.constructed /\ frame.pc \in {"none", "done"}
    /\ frame.call < MaxRuns
    /\ phase' = [phase EXCEPT !.started_at = frame.call + 1]
    /\ phase_logger' = Append(phase_logger, "START")
    /\ logger' = Append(logger, "Starting phase")
    /\ frame' = Frame("pre_check", frame.call + 1, << >>, "none")
    /\ UNCHANGED <<ipamVars, allocated, storeVars, installerVars>>

\* What the except clause of run() takes for handled: everything, as if it
\* were except BaseException.
except_BaseException(outcome) == outcome \in {"Exception", "KeyboardInterrupt"}

\* except Exception as e: a KeyboardInterrupt is not an Exception.
except_Exception(outcome) == outcome = "Exception"

\* The except clause and the way to the finally block after a hook that
\* raised: what the clause handles is logged and run() is to return False,
\* anything else goes on to the caller.
AfterRaise(name, outcome) ==
    /\ frame' = [frame EXCEPT
                    !.pc = "finally",
                    !.hooks = Append(@, Hook(name, outcome)),
                    !.returns = IF except_Exception(outcome) THEN "False" ELSE outcome]
    /\ logger' = IF except_Exception(outcome)
                     THEN Append(logger, "failed with error")
                 ELSE logger
    /\ UNCHANGED phase

\* if not self.pre_check(): ... return False
PreCheck ==
    /\ frame.pc = "pre_check"
    /\ \E outcome \in HookOutcomes :
         IF outcome = "True"
             THEN /\ frame' = [frame EXCEPT !.pc = "execute",
                                            !.hooks = Append(@, Hook("pre_check", outcome))]
                  /\ UNCHANGED <<phase, logger>>
         ELSE IF outcome = "False"
             THEN /\ frame' = [frame EXCEPT !.pc = "finally",
                                            !.hooks = Append(@, Hook("pre_check", outcome)),
                                            !.returns = "False"]
                  /\ logger' = Append(logger, "Pre-check failed")
                  /\ UNCHANGED phase
         ELSE AfterRaise("pre_check", outcome)
    /\ UNCHANGED phase_logger
    /\ UNCHANGED <<ipamVars, allocated, storeVars, installerVars>>

\* result = self.execute(); a false result is the value of run():
\* self.success = result; return result
Execute ==
    /\ frame.pc = "execute"
    /\ \E outcome \in HookOutcomes :
         IF outcome = "True"
             THEN /\ frame' = [frame EXCEPT !.pc = "post_check",
                                            !.hooks = Append(@, Hook("execute", outcome))]
                  /\ UNCHANGED <<phase, logger>>
         ELSE IF outcome = "False"
             THEN /\ frame' = [frame EXCEPT !.pc = "finally",
                                            !.hooks = Append(@, Hook("execute", outcome)),
                                            !.returns = "False"]
                  /\ phase' = [phase EXCEPT !.success = FALSE]
                  /\ UNCHANGED logger
         ELSE AfterRaise("execute", outcome)
    /\ UNCHANGED phase_logger
    /\ UNCHANGED <<ipamVars, allocated, storeVars, installerVars>>

\* if result: result = self.post_check(); self.success = result; return result
PostCheck ==
    /\ frame.pc = "post_check"
    /\ \E outcome \in HookOutcomes :
         IF outcome \in {"True", "False"}
             THEN /\ frame' = [frame EXCEPT !.pc = "finally",
                                            !.hooks = Append(@, Hook("post_check", outcome)),
                                            !.returns = outcome]
                  /\ phase' = [phase EXCEPT !.success = (outcome = "True")]
                  /\ UNCHANGED logger
         ELSE AfterRaise("post_check", outcome)
    /\ UNCHANGED phase_logger
    /\ UNCHANGED <<ipamVars, allocated, storeVars, installerVars>>

\* finally: completed_at, phase_logger.end(self.success), the last message;
\* then run() returns, or the interrupt goes on.
Finally ==
    /\ frame.pc = "finally"
    /\ phase' = [phase EXCEPT !.completed_at = frame.call]
    /\ phase_logger' = Append(phase_logger,
           IF phase.success THEN "STATUS: SUCCESS" ELSE "STATUS: FAILED")
    /\ logger' = Append(logger,
           IF phase.success THEN "completed successfully" ELSE "failed")
    /\ frame' = [frame EXCEPT !.pc = "done"]
    /\ UNCHANGED <<ipamVars, allocated, storeVars, installerVars>>

PhaseNext ==
    \/ ConstructPhase
    \/ RunStart
    \/ PreCheck
    \/ Execute
    \/ PostCheck
    \/ Finally

SpecPhase == Init /\ [][PhaseNext]_vars

---------------------------------------------------------------------------
(* CloudInstaller (src/py/cloud_installer.py): the installer object, the   *)
(* two ways main() runs it, and the loop of run_phases, one step per phase *)
(* started, per phase.run() ended and per prompt answered.                 *)

\* self.phases, in the order of the dict.
phases ==
    <<"preflight", "system_prep", "network", "controller", "compute",
      "post_install", "verification">>

PhaseIds == {phases[i] : i \in DOMAIN phases}

\* A phase id that is not in self.phases.
UnknownPhase == "cleanup"

\* What --config names: nothing, a readable JSON file, or a file that is
\* not there.
ConfigFiles == {"", "node.json", "missing.json"}

\* NodeConfig.load_from_file: False for a missing file and for any error.
load_from_file(config_file) == config_file = "node.json"

\* What select_phases returns: all, skip:X, only:X or a number.
Selections ==
    {phases}
        \cup {SelectSeq(phases, LAMBDA p : p # x) : x \in PhaseIds}
        \cup {<<x>> : x \in PhaseIds}

\* Lists given to run_phases by a caller other than the two of main().
DirectLists == {<<"preflight", UnknownPhase, "network">>}

\* What phase.run() does for run_phases: returns, raises, is interrupted.
RunOutcomes == {"True", "False", "Exception", "KeyboardInterrupt"}

\* What ask_yes_no does: returns True or False (an empty answer is the
\* default), or input() is interrupted.
Answers == {"yes", "no", "KeyboardInterrupt"}

Loop(caller, pc, phase_ids, i, started, failed, continued, declined) ==
    [caller |-> caller, pc |-> pc, phase_ids |-> phase_ids, i |-> i,
     started |-> started, failed |-> failed, continued |-> continued,
     declined |-> declined]

\* The call of run_phases: the loop before its first entry.
run_phases(caller, phase_ids) ==
    Loop(caller, "next", phase_ids, 0, << >>, {}, {}, "")

\* CloudInstaller.__init__
ConstructInstaller ==
    /\ ~installer.constructed
    /\ \E interactive \in BOOLEAN :
         installer' = [constructed |-> TRUE, interactive |-> interactive,
                       loaded |-> FALSE]
    /\ UNCHANGED loop
    /\ UNCHANGED <<ipamVars, allocated, storeVars, phaseVars>>

\* run_non_interactive(config_file): the result of load_from_file and of
\* load is not looked at.
RunNonInteractive ==
    /\ installer.constructed /\ ~installer.interactive
    /\ loop.pc = "none"
    /\ \E config_file \in ConfigFiles, exists \in BOOLEAN, readable \in BOOLEAN :
         IF config_file # ""
             THEN /\ installer' = [installer EXCEPT !.loaded = load_from_file(config_file)]
                  /\ loop' = run_phases("run_non_interactive", phases)
         ELSE IF exists
             THEN /\ installer' = [installer EXCEPT !.loaded = readable]
                  /\ loop' = run_phases("run_non_interactive", phases)
         ELSE /\ loop' = [loop EXCEPT !.caller = "run_non_interactive", !.pc = "exit"]
              /\ UNCHANGED installer
    /\ UNCHANGED <<ipamVars, allocated, storeVars, phaseVars>>

\* run_interactive: the configuration is loaded or collected, then
\* run_phases(select_phases()).
RunInteractive ==
    /\ installer.constructed /\ installer.interactive
    /\ loop.pc = "none"
    /\ installer' = [installer EXCEPT !.loaded = TRUE]
    /\ \E phase_ids \in Selections :
         loop' = run_phases("run_interactive", phase_ids)
    /\ UNCHANGED <<ipamVars, allocated, storeVars, phaseVars>>

\* run_phases called with a list of the caller's own.
RunPhases ==
    /\ installer.constructed
    /\ loop.pc = "none"
    /\ \E phase_ids \in DirectLists :
         loop' = run_phases("run_phases", phase_ids)
    /\ UNCHANGED installer
    /\ UNCHANGED <<ipamVars, allocated, storeVars, phaseVars>>

\* The prompt after a failed phase is never put.
asks_Never(interactive) == FALSE

\* if self.interactive and not self.ask_yes_no(...): the prompt after a
\* failed phase is put in interactive mode only.
asks(interactive) == interactive

\* for phase_id in phase_ids: an unknown id is logged and passed over, a
\* known one has its phase constructed and run() called.
NextPhase ==
    /\ loop.pc = "next"
    /\ IF loop.i = Len(loop.phase_ids)
           THEN loop' = [loop EXCEPT !.pc = "returned"]
       ELSE LET phase_id == loop.phase_ids[loop.i + 1]
            IN  IF phase_id \notin PhaseIds
                    THEN loop' = [loop EXCEPT !.i = @ + 1]
                ELSE loop' = [loop EXCEPT !.i = @ + 1, !.pc = "run",
                                          !.started = Append(@, phase_id)]
    /\ UNCHANGED installer
    /\ UNCHANGED <<ipamVars, allocated, storeVars, phaseVars>>

\* phase.run() ends, inside the try.
PhaseRun ==
    /\ loop.pc = "run"
    /\ LET phase_id == loop.phase_ids[loop.i]
       IN  \E outcome \in RunOutcomes :
             IF outcome = "True"
                 THEN loop' = [loop EXCEPT !.pc = "next"]
             ELSE IF outcome = "False"
                 THEN loop' = [loop EXCEPT
                                  !.failed = @ \cup {phase_id},
                                  !.pc = IF asks(installer.interactive)
                                             THEN "ask_failed" ELSE "next"]
             ELSE IF outcome = "Exception"
                 THEN loop' = [loop EXCEPT
                                  !.failed = @ \cup {phase_id},
                                  !.pc = IF asks(installer.interactive)
                                             THEN "ask_error" ELSE "next"]
             ELSE loop' = [loop EXCEPT !.pc = "ask_interrupted"]
    /\ UNCHANGED installer
    /\ UNCHANGED <<ipamVars, allocated, storeVars, phaseVars>>

Continued(question) ==
    [loop EXCEPT !.pc = "next",
                 !.continued = @ \cup {[phase |-> loop.phase_ids[loop.i],
                                        question |-> question]}]

\* 'Continue to next phase?' after run() returned False: the prompt is
\* inside the try, so an interrupt of it is handled like one of the phase.
AskAfterFailure ==
    /\ loop.pc = "ask_failed"
    /\ \E answer \in Answers :
         loop' = IF answer = "yes" THEN Continued("Continue to next phase?")
                 ELSE IF answer = "no"
                     THEN [loop EXCEPT !.pc = "returned",
                                       !.declined = "Continue to next phase?"]
                 ELSE [loop EXCEPT !.pc = "ask_interrupted"]
    /\ UNCHANGED installer
    /\ UNCHANGED <<ipamVars, allocated, storeVars, phaseVars>>

\* except KeyboardInterrupt: 'Continue installation?', in either mode;
\* a no is sys.exit(0), an interrupt of the prompt goes on to the caller.
AskAfterInterrupt ==
    /\ loop.pc = "ask_interrupted"
    /\ \E answer \in Answers :
         loop' = IF answer = "yes" THEN Continued("Continue installation?")
                 ELSE IF answer = "no"
                     THEN [loop EXCEPT !.pc = "exit",
                                       !.declined = "Continue installation?"]
                 ELSE [loop EXCEPT !.pc = "raised"]
    /\ UNCHANGED installer
    /\ UNCHANGED <<ipamVars, allocated, storeVars, phaseVars>>

\* except Exception: 'Continue to next phase?', outside the try.
AskAfterException ==
    /\ loop.pc = "ask_error"
    /\ \E answer \in Answers :
         loop' = IF answer = "yes" THEN Continued("Continue to next phase?")
                 ELSE IF answer = "no"
                     THEN [loop EXCEPT !.pc = "returned",
                                       !.declined = "Continue to next phase?"]
                 ELSE [loop EXCEPT !.pc = "raised"]
    /\ UNCHANGED installer
    /\ UNCHANGED <<ipamVars, allocated, storeVars, phaseVars>>

InstallerNext ==
    \/ ConstructInstaller
    \/ RunNonInteractive
    \/ RunInteractive
    \/ RunPhases
    \/ NextPhase
    \/ PhaseRun
    \/ AskAfterFailure
    \/ AskAfterInterrupt
    \/ AskAfterException

SpecInstaller == Init /\ [][InstallerNext]_vars

---------------------------------------------------------------------------
(* Notions the properties are stated in.                                   *)

\* A block both the code and section 4.1 take for valid: a text written as
\* address/length that ip_network accepts.
ValidBlock(t) == t.sfx = "len" /\ ip_network(t).ok

\* The address lies in the block.
InBlock(net, digits) ==
    /\ AddrLE(net.network_address, digits)
    /\ AddrLE(digits, broadcast_address(net))

\* A usable host as section 4.1 and the glossary define it: an address of
\* the block other than the network address and, for an IPv4 block of
\* prefix length < 31, other than the broadcast address.
UsableHost(net, digits) ==
    /\ InBlock(net, digits)
    /\ digits # net.network_address
    /\ (net.version = 4 /\ net.prefixlen < 31
            => digits # broadcast_address(net))

\* The values of the entries of a used list that denote an address, a
\* leading-zero form counting as the address it writes.
ValueOf(t) == ip_address([t EXCEPT !.lz = FALSE])

UsedValues(used_ips) ==
    {ValueOf(used_ips[i]) : i \in {j \in 1..Len(used_ips) : ValueOf(used_ips[j]).ok}}

AllAddresses(used_ips) == \A i \in 1..Len(used_ips) : ValueOf(used_ips[i]).ok

AllCanonical(used_ips) == \A i \in 1..Len(used_ips) : ip_address(used_ips[i]).ok

\* The first Len(used_ips) + 2 addresses of the block (all of them when the
\* block is smaller).  A used list leaves a usable host unused exactly when
\* it leaves one of these unused, and the smallest such is among them.
LeadingAddresses(net, used_ips) ==
    LET hostbits == max_prefixlen(net.version) - net.prefixlen
        last == IF hostbits >= 8 THEN Len(used_ips) + 1
                ELSE Min(Pow2(hostbits) - 1, Len(used_ips) + 1)
    IN  {AddrPlus(net.version, net.network_address, k) : k \in 0..last}

UnusedUsable(net, used_ips) ==
    {d \in LeadingAddresses(net, used_ips) :
        /\ UsableHost(net, d)
        /\ [ok |-> TRUE, version |-> net.version, digits |-> d]
               \notin UsedValues(used_ips)}

Smallest(S) == CHOOSE d \in S : \A e \in S : AddrLE(d, e)

\* Every usable host of a block of at most 8 addresses.
SmallBlock(net) == max_prefixlen(net.version) - net.prefixlen <= 3

AllUsable(net) ==
    {d \in {AddrPlus(net.version, net.network_address, k) :
                k \in 0..(Pow2(max_prefixlen(net.version) - net.prefixlen) - 1)} :
        UsableHost(net, d)}

AsValues(version, S) == {[ok |-> TRUE, version |-> version, digits |-> d] : d \in S}

---------------------------------------------------------------------------
(* C1 .. C10                                                               *)

\* C1: for a valid block and a used list of valid addresses that leaves a
\* usable host unused, get_available_ip returns the numerically smallest
\* usable host that is not in the list.
C1_SmallestUnusedUsable ==
    op = "get_available_ip" /\ ValidBlock(args.cidr)
        /\ AllCanonical(args.used_ips)
        /\ UnusedUsable(ip_network(args.cidr), args.used_ips) # {}
    => result = RetStr(StrAddress(ip_network(args.cidr).version,
                    Smallest(UnusedUsable(ip_network(args.cidr), args.used_ips))))

\* C2: generate_subnets raises ValueError whenever the parent text is not a
\* valid block, or new_prefix is shorter than the parent's prefix length or
\* longer than the family's maximum, whatever the parent's prefix length.
C2_InvalidSplitRaises ==
    op = "generate_subnets" /\ args.count >= 0
        /\ \/ ~ip_network(args.cidr).ok
           \/ /\ ValidBlock(args.cidr)
              /\ \/ args.new_prefix < ip_network(args.cidr).prefixlen
                 \/ args.new_prefix > max_prefixlen(ip_network(args.cidr).version)
    => result = Raise("ValueError")

\* C3: is_subnet_of returns False, and raises nothing, for two valid blocks
\* of different IP versions, in either argument order.
C3_MixedVersionsFalse ==
    op = "is_subnet_of" /\ ip_network(args.cidr).ok /\ ip_network(args.other).ok
        /\ ip_network(args.cidr).version # ip_network(args.other).version
    => result = RetBool(FALSE)

\* The texts C4 calls valid: an address whose fields are in range for its
\* family, followed by a slash and a prefix length in [0, 32] or [0, 128].
AddressSlashLength(t) ==
    /\ t.fam \in {"v4", "v6"}
    /\ \A i \in 1..Len(t.fields) :
           t.fields[i] >= 0
               /\ t.fields[i] < Pow2(DigitBits(IF t.fam = "v4" THEN 4 ELSE 6))
    /\ t.sfx = "len"
    /\ t.n >= 0 /\ t.n <= max_prefixlen(IF t.fam = "v4" THEN 4 ELSE 6)

\* C4: validate_cidr returns a boolean for every text, and True exactly for
\* an in-range address followed by an in-range prefix length.
C4_ValidExactlyAddressSlashLength ==
    op = "validate_cidr"
    => result = RetBool(AddressSlashLength(args.cidr))

\* C5 as stated: validate_cidr returns True for every in-range address a and
\* in-range prefix length p, host bits beyond p set or not.
C5_AcceptsHostBits ==
    op = "validate_cidr" /\ AddressSlashLength(args.cidr) /\ ~args.cidr.lz
    => result = RetBool(TRUE)

\* Host bits of the written address beyond the written prefix length.
HasHostBits(t) ==
    \E i \in 1..Len(t.fields) :
        t.fields[i] % Pow2(HostBits(IF t.fam = "v4" THEN 4 ELSE 6, t.n, i)) # 0

\* C5 amended: validate_cidr requires canonical form; for an in-range
\* address a and an in-range prefix length p it returns True for a/p exactly
\* when a has no host bits set beyond p, and False (no normalising) otherwise.
C5_RequiresCanonicalForm ==
    op = "validate_cidr" /\ AddressSlashLength(args.cidr) /\ ~args.cidr.lz
    => result = RetBool(~HasHostBits(args.cidr))

\* C5 witness: 10.0.0.1/16, an in-range address with host bits set beyond
\* its in-range prefix length, has been put to validate_cidr.
C5_Witness ==
    /\ op = "validate_cidr"
    /\ args.cidr = Text("v4", <<10, 0, 0, 1>>, FALSE, "len", 16)
    /\ result = RetBool(FALSE)

\* C6: get_available_ip raises nothing and returns None exactly when the
\* block text is invalid or every usable host of the block is in the used
\* list; otherwise it returns an address, whatever else the list holds.
C6_NoneExactlyWhenExhausted ==
    op = "get_available_ip" /\ (ip_network(args.cidr).ok => ValidBlock(args.cidr))
    => /\ result.kind = "return"
       /\ result = RetNone
            <=> \/ ~ip_network(args.cidr).ok
                \/ UnusedUsable(ip_network(args.cidr), args.used_ips) = {}
       /\ result # RetNone => result.type = "str"

\* The used list with every entry written in canonical form.
Canonical(used_ips) ==
    [i \in 1..Len(used_ips) |-> [used_ips[i] EXCEPT !.lz = FALSE]]

\* C7: used entries count by address value: a list of the block's family
\* with leading-zero forms gives the outcome its canonical spelling gives, and 010.000.000.001 as
\* the only entry of a block whose first usable host is 10.0.0.1 makes the
\* call return the next usable host.
C7_LeadingZerosCompareEqual ==
    op = "get_available_ip" /\ ValidBlock(args.cidr)
        /\ AllAddresses(args.used_ips)
        /\ (\A i \in 1..Len(args.used_ips) :
               ValueOf(args.used_ips[i]).version = ip_network(args.cidr).version)
    => /\ result = get_available_ip(args.cidr, Canonical(args.used_ips))
       /\ LET net   == ip_network(args.cidr)
              first == AddrPlus(net.version, net.network_address, 1)
              next  == AddrPlus(net.version, net.network_address, 2)
          IN  /\ args.used_ips = <<[StrAddress(net.version, first) EXCEPT !.lz = TRUE]>>
              /\ UsableHost(net, first) /\ UsableHost(net, next)
              => result = RetStr(StrAddress(net.version, next))

\* C8: an address get_available_ip returns lies in the block, differs from
\* every used entry, is not the network address and, for an IPv4 block of
\* prefix length < 31, is not the broadcast address; at every prefix length.
C8_ReturnedHostIsUsable ==
    op = "get_available_ip" /\ ValidBlock(args.cidr) /\ result.type = "str"
    => LET net == ip_network(args.cidr)
           r   == ip_address(result.s)
       IN  /\ r.ok /\ r.version = net.version
           /\ UsableHost(net, r.digits)
           /\ r \notin UsedValues(args.used_ips)

\* C9: a used list holding every usable host of a valid block gives None,
\* and the list of every usable host but h gives h.
C9_Exhaustion ==
    op = "get_available_ip" /\ ValidBlock(args.cidr)
        /\ SmallBlock(ip_network(args.cidr)) /\ AllCanonical(args.used_ips)
    => LET net  == ip_network(args.cidr)
           used == UsedValues(args.used_ips)
       IN  /\ AsValues(net.version, AllUsable(net)) \subseteq used
                => result = RetNone
           /\ \A h \in AllUsable(net) :
                used = AsValues(net.version, AllUsable(net) \ {h})
                => result = RetStr(StrAddress(net.version, h))

\* The range test of section 4.1 on two valid blocks of one version.
RangeTest(parent, child) ==
    /\ AddrLE(parent.network_address, child.network_address)
    /\ AddrLE(broadcast_address(child), broadcast_address(parent))

PrefixTest(parent, child) ==
    /\ child.prefixlen >= parent.prefixlen
    /\ InBlock(parent, child.network_address)

\* C10: is_subnet_of returns True exactly when both texts are valid blocks
\* and the child's range lies within the parent's, and False on every other
\* pair of texts; on valid blocks the range test is the prefix test.
C10_TrueExactlyWhenRangeWithin ==
    op = "is_subnet_of"
    => LET parent == ip_network(args.cidr)
           child  == ip_network(args.other)
       IN  /\ result = RetBool(/\ parent.ok /\ child.ok
                               /\ parent.version = child.version
                               /\ RangeTest(parent, child))
           /\ parent.ok /\ child.ok /\ parent.version = child.version
                => (RangeTest(parent, child) <=> PrefixTest(parent, child))

---------------------------------------------------------------------------
(* C11 .. C20                                                              *)

\* new_prefix is a valid new prefix length for the parent.
ValidSplit(net, new_prefix) ==
    new_prefix >= net.prefixlen /\ new_prefix <= max_prefixlen(net.version)

\* min(count, 2^bits) for a count below 2^30.
MinOfCountAndPow2(count, bits) ==
    IF bits > 30 THEN count ELSE Min(count, Pow2(bits))

\* C11: for a valid parent of prefix length q, a valid new prefix length
\* n >= q and a count >= 0, generate_subnets returns a list of exactly
\* min(count, 2^(n-q)) blocks, each of prefix length n.
C11_ReturnsMinOfCountAndExisting ==
    op = "generate_subnets" /\ ValidBlock(args.cidr) /\ args.count >= 0
        /\ ValidSplit(ip_network(args.cidr), args.new_prefix)
    => /\ result.kind = "return" /\ result.type = "list"
       /\ Len(result.l) =
            MinOfCountAndPow2(args.count,
                              args.new_prefix - ip_network(args.cidr).prefixlen)
       /\ \A i \in 1..Len(result.l) :
            /\ ip_network(result.l[i]).ok
            /\ ip_network(result.l[i]).prefixlen = args.new_prefix

\* Two networks of one version share no address.
Disjoint(a, b) ==
    \/ AddrLT(broadcast_address(a), b.network_address)
    \/ AddrLT(broadcast_address(b), a.network_address)

\* C12: the blocks generate_subnets returns are pairwise disjoint, and
\* is_subnet_of(parent, block) is True for each of them.
C12_DisjointAndContained ==
    op = "generate_subnets" /\ result.type = "list"
    => /\ \A i \in 1..Len(result.l) :
            is_subnet_of(args.cidr, result.l[i]) = RetBool(TRUE)
       /\ \A i \in 1..Len(result.l) : \A j \in 1..Len(result.l) :
            i # j => /\ ip_network(result.l[i]).ok
                     /\ ip_network(result.l[j]).ok
                     /\ Disjoint(ip_network(result.l[i]), ip_network(result.l[j]))

\* C12 witness: a split into at least three blocks has been returned.
C12_Witness ==
    /\ op = "generate_subnets"
    /\ args.cidr = Text("v4", <<10, 0, 0, 0>>, FALSE, "len", 30)
    /\ args.new_prefix = 32
    /\ result.type = "list" /\ Len(result.l) >= 3

\* Two addresses of one version are the same address.
AddrEq(a, b) == \A i \in DOMAIN a : a[i] = b[i]

\* The list b starts with the list a.
IsPrefix(a, b) == Len(a) <= Len(b) /\ \A i \in 1..Len(a) : a[i] = b[i]

\* C13: the returned blocks are the leading blocks of the subdivision, in
\* strictly ascending order: the first starts at the parent's network
\* address and each next one right after the end of the one before (that
\* is, block i starts at parent + i * 2^(addrbits-n)); and for counts >= 0
\* the result is a prefix of the result for the next larger count.
C13_LeadingBlocksAscending ==
    op = "generate_subnets" /\ result.type = "list" /\ ValidBlock(args.cidr)
        /\ ValidSplit(ip_network(args.cidr), args.new_prefix)
    => LET parent == ip_network(args.cidr)
           block(i) == ip_network(result.l[i])
       IN  /\ \A i \in 1..Len(result.l) :
                /\ block(i).ok /\ block(i).version = parent.version
                /\ block(i).prefixlen = args.new_prefix
           /\ Len(result.l) >= 1
                => AddrEq(block(1).network_address, parent.network_address)
           /\ \A i \in 1..(Len(result.l) - 1) :
                /\ AddrEq(block(i + 1).network_address,
                          AddrPlus(parent.version, broadcast_address(block(i)), 1))
                /\ AddrLT(block(i).network_address, block(i + 1).network_address)
           /\ args.count >= 0
                => IsPrefix(result.l,
                       generate_subnets(args.cidr, args.new_prefix,
                                        args.count + 1).l)

\* C13 witness: three blocks of a split into four have been returned.
C13_Witness ==
    /\ op = "generate_subnets"
    /\ args.cidr = Text("v4", <<10, 0, 0, 0>>, FALSE, "len", 29)
    /\ args.new_prefix = 31 /\ args.count = 3
    /\ result.type = "list" /\ Len(result.l) = 3
    /\ result.l[3].fields[4] = 4 /\ result.l[3].n = 31

\* C14: is_subnet_of(x, x) is True for every valid block x, and so
\* create_subnet's checks pass a subnet CIDR identical to its network's.
C14_Reflexive ==
    op = "is_subnet_of" /\ args.cidr = args.other /\ ip_network(args.cidr).ok
    => /\ result = RetBool(TRUE)
       /\ create_subnet_checks(args.cidr, args.other) = Response("passed", << >>)

\* C14 witness: 10.0.0.0/16 has been tested against itself.
C14_Witness ==
    /\ op = "is_subnet_of"
    /\ args.cidr = Text("v4", <<10, 0, 0, 0>>, FALSE, "len", 16)
    /\ args.other = args.cidr
    /\ result = RetBool(TRUE)

\* C15: if is_subnet_of(a, b) and is_subnet_of(b, c) are both True, then
\* is_subnet_of(a, c) is True, for all texts a, b, c.
C15_Transitive ==
    op = "is_subnet_of" /\ result = RetBool(TRUE)
    => \A c \in CidrTexts :
          is_subnet_of(args.other, c) = RetBool(TRUE)
          => is_subnet_of(args.cidr, c) = RetBool(TRUE)

\* C15 witness: 10.0.0.0/16 lies in 10.0.0.0/8, and 10.0.0.0/24, a third
\* block, lies in 10.0.0.0/16.
C15_Witness ==
    /\ op = "is_subnet_of"
    /\ args.cidr = Text("v4", <<10, 0, 0, 0>>, FALSE, "len", 8)
    /\ args.other = Text("v4", <<10, 0, 0, 0>>, FALSE, "len", 16)
    /\ result = RetBool(TRUE)
    /\ is_subnet_of(args.other, Text("v4", <<10, 0, 0, 0>>, FALSE, "len", 24))
           = RetBool(TRUE)

\* C16: calculate_network_info never raises; it returns the empty dict
\* exactly for the texts validate_cidr rejects and a populated dict exactly
\* for the texts validate_cidr accepts; and the calculate-network endpoint
\* answers 400 'Invalid CIDR notation' exactly for the empty dict.
C16_NeverRaises ==
    /\ op = "calculate_network_info"
       => /\ result.kind = "return" /\ result.type = "dict"
          /\ result.l = << >> <=> validate_cidr(args.cidr) = RetBool(FALSE)
          /\ Len(result.l) = 1 <=> validate_cidr(args.cidr) = RetBool(TRUE)
    /\ op = "calculate_network"
       => /\ result.kind = "return"
          /\ result.type = "400 Invalid CIDR notation"
                <=> calculate_network_info(args.cidr) = RetDict(<< >>)
          /\ result.type = "200"
                <=> validate_cidr(args.cidr) = RetBool(TRUE)

\* C17: for a valid block, usable_hosts is num_addresses - 2 for an IPv4
\* block of prefix length < 31, and num_addresses for an IPv4 /31 or /32
\* block and for every IPv6 block.
C17_UsableHostsCount ==
    op = "calculate_network_info" /\ ValidBlock(args.cidr) /\ Len(result.l) = 1
    => LET network == ip_network(args.cidr)
           bits    == max_prefixlen(network.version) - network.prefixlen
       IN  result.l[1].usable_hosts =
              IF network.version = 4 /\ network.prefixlen < 31
                  THEN TwoToThe(bits, 2)
              ELSE TwoToThe(bits, 0)

\* The block has no usable host distinct from its network and broadcast
\* addresses: IPv4 /31 and /32, IPv6 /128.
NoUsableHosts(net) ==
    \/ net.version = 4 /\ net.prefixlen >= 31
    \/ net.version = 6 /\ net.prefixlen = 128

\* C18: for a valid block with no usable hosts (IPv4 /31, /32, IPv6 /128)
\* first_usable and last_usable are None; for an IPv4 block of prefix
\* length < 31 first_usable is the network address + 1 and last_usable the
\* broadcast address - 1.
C18_FirstLastUsable ==
    op = "calculate_network_info" /\ ValidBlock(args.cidr) /\ Len(result.l) = 1
    => LET network == ip_network(args.cidr)
           info    == result.l[1]
       IN  /\ NoUsableHosts(network)
                => info.first_usable = None /\ info.last_usable = None
           /\ network.version = 4 /\ network.prefixlen < 31
                => /\ info.first_usable.present /\ info.last_usable.present
                   /\ info.first_usable.s.sfx = "none"
                   /\ info.last_usable.s.sfx = "none"
                   /\ AddrEq(info.first_usable.s.fields,
                             AddrPlus(4, network.network_address, 1))
                   /\ AddrEq(info.last_usable.s.fields,
                             AddrPred(4, broadcast_address(network)))

\* The address is the lowest one of the block of prefix length q that
\* holds it: all its host bits are 0.
LowestOfBlock(version, digits, q) ==
    \A i \in 1..NDigits(version) :
        digits[i] % Pow2(HostBits(version, q, i)) = 0

\* The address is the highest one of that block: all its host bits are 1.
HighestOfBlock(version, digits, q) ==
    \A i \in 1..NDigits(version) :
        digits[i] % Pow2(HostBits(version, q, i))
            = Pow2(HostBits(version, q, i)) - 1

\* Two addresses agree on their leading q bits.
SamePrefixBits(version, a, b, q) ==
    \A i \in 1..NDigits(version) :
        a[i] \div Pow2(HostBits(version, q, i))
            = b[i] \div Pow2(HostBits(version, q, i))

\* C19: for every valid block of prefix length q, calculate_network_info
\* returns network_address = the lowest and broadcast_address = the highest
\* address of the block, prefixlen = q, num_addresses = 2^(addrbits-q),
\* netmask = the q-bit mask and hostmask = its complement; 10.0.0.0/24
\* gives 10.0.0.0, 10.0.0.255, 24, 256, usable 254, first 10.0.0.1, last
\* 10.0.0.254.
C19_DescribesBlock ==
    op = "calculate_network_info" /\ ValidBlock(args.cidr)
    => /\ result.kind = "return" /\ result.type = "dict" /\ Len(result.l) = 1
       /\ LET info == result.l[1]
              v    == IF args.cidr.fam = "v4" THEN 4 ELSE 6
              q    == args.cidr.n
              B    == DigitBits(v)
          IN  /\ info.prefixlen = q
              /\ info.num_addresses = TwoToThe(max_prefixlen(v) - q, 0)
              /\ LowestOfBlock(v, info.network_address.fields, q)
              /\ HighestOfBlock(v, info.broadcast_address.fields, q)
              /\ SamePrefixBits(v, info.network_address.fields,
                                args.cidr.fields, q)
              /\ SamePrefixBits(v, info.broadcast_address.fields,
                                args.cidr.fields, q)
              /\ LowestOfBlock(v, info.netmask.fields, q)
              /\ SamePrefixBits(v, info.netmask.fields,
                                [i \in 1..NDigits(v) |-> Pow2(B) - 1], q)
              /\ \A i \in 1..NDigits(v) :
                    info.netmask.fields[i] + info.hostmask.fields[i]
                        = Pow2(B) - 1
              /\ args.cidr = Text("v4", <<10, 0, 0, 0>>, FALSE, "len", 24)
                    => /\ info.network_address.fields = <<10, 0, 0, 0>>
                       /\ info.broadcast_address.fields = <<10, 0, 0, 255>>
                       /\ info.usable_hosts = TwoToThe(8, 2)
                       /\ info.first_usable.present
                       /\ info.first_usable.s.fields = <<10, 0, 0, 1>>
                       /\ info.last_usable.present
                       /\ info.last_usable.s.fields = <<10, 0, 0, 254>>

\* C20: for every text validate_cidr accepts, the text made of
\* calculate_network_info's network_address, a slash and its prefixlen is
\* accepted by validate_cidr and denotes the same block.
C20_RoundTrip ==
    op = "calculate_network_info" /\ validate_cidr(args.cidr) = RetBool(TRUE)
    => /\ result.kind = "return" /\ result.type = "dict" /\ Len(result.l) = 1
       /\ LET info == result.l[1]
              t    == [info.network_address EXCEPT
                          !.sfx = "len", !.n = info.prefixlen]
          IN  /\ validate_cidr(t) = RetBool(TRUE)
              /\ ip_network(t).version = ip_network(args.cidr).version
              /\ ip_network(t).prefixlen = ip_network(args.cidr).prefixlen
              /\ AddrEq(ip_network(t).network_address,
                        ip_network(args.cidr).network_address)

---------------------------------------------------------------------------
(* C21 .. C30                                                              *)

\* The addresses get_available_ip hands out for a block when every address
\* it returns is added to the used list before the next call, in the order
\* they are returned, starting from the used list given.
RECURSIVE Allocations(_, _)
Allocations(subnet_cidr, used_ips) ==
    LET r == get_available_ip(subnet_cidr, used_ips)
    IN  IF r.type = "str"
            THEN <<r.s>> \o Allocations(subnet_cidr, Append(used_ips, r.s))
        ELSE << >>

\* The number a num_addresses / usable_hosts value of a small block stands
\* for.
IntOf(big) == Pow2(big.exp) - big.minus

\* C23: for every valid block, usable_hosts is non-negative and is the
\* number of distinct addresses get_available_ip hands out for the block
\* when allocating until None; first_usable and last_usable are None
\* exactly when usable_hosts is 0, and otherwise the smallest and the
\* largest of those addresses.
C23_UsableHostViewsAgree ==
    op = "calculate_network_info" /\ ValidBlock(args.cidr)
        /\ SmallBlock(ip_network(args.cidr)) /\ Len(result.l) = 1
    => LET info  == result.l[1]
           given == Allocations(args.cidr, << >>)
           n     == IntOf(info.usable_hosts)
       IN  /\ n >= 0
           /\ n = Cardinality({given[i] : i \in 1..Len(given)})
           /\ info.first_usable = None <=> n = 0
           /\ info.last_usable = None <=> n = 0
           /\ n > 0
                => /\ \E i \in 1..Len(given) :
                        AddrEq(info.first_usable.s.fields, given[i].fields)
                   /\ \E i \in 1..Len(given) :
                        AddrEq(info.last_usable.s.fields, given[i].fields)
                   /\ \A i \in 1..Len(given) :
                        /\ AddrLE(info.first_usable.s.fields, given[i].fields)
                        /\ AddrLE(given[i].fields, info.last_usable.s.fields)

\* C24: generate_subnets never returns more blocks than asked for: for
\* every integer count, zero and negative ones included, the returned list
\* has at most max(count, 0) elements.
C24_AtMostCountBlocks ==
    op = "generate_subnets" /\ result.type = "list"
    => Len(result.l) <= Max(args.count, 0)

\* C25: allocating from a valid block, starting from an empty used list
\* and adding each returned address before the next call: the returned
\* addresses are strictly increasing (so pairwise distinct); None comes
\* after exactly as many allocations as the block has usable hosts; and
\* after None every later call, with the same or a longer used list, gives
\* None.
C25_SequentialAllocation ==
    op = "get_available_ip" /\ ValidBlock(args.cidr)
        /\ SmallBlock(ip_network(args.cidr))
    => LET usable == AllUsable(ip_network(args.cidr))
       IN  /\ \A i \in 1..Len(allocated) : \A j \in 1..Len(allocated) :
                i < j => AddrLT(allocated[i].fields, allocated[j].fields)
           /\ result.type = "str"
                => /\ \A i \in 1..Len(allocated) :
                        AddrLT(allocated[i].fields, result.s.fields)
                   /\ Len(allocated) < Cardinality(usable)
           /\ result = RetNone /\ Len(args.used_ips) = Len(allocated)
                => Len(allocated) = Cardinality(usable)
           /\ Len(args.used_ips) > Len(allocated) => result = RetNone

\* Every stored CIDR is valid, and every stored subnet lies, per
\* is_subnet_of, within the CIDR of its stored parent network.
StoredCidrsValid ==
    /\ \A n \in networks : validate_cidr(n.cidr) = RetBool(TRUE)
    /\ \A sn \in subnets :
          /\ validate_cidr(sn.cidr) = RetBool(TRUE)
          /\ \E n \in networks :
                /\ n.id = sn.network_id
                /\ is_subnet_of(n.cidr, sn.cidr) = RetBool(TRUE)

\* Request r is answered 400 in this step.
Rejected(r) == requests[r].status # 400 /\ requests'[r].status = 400

\* C22: after any sequence of create_network, create_subnet and
\* delete_network requests every stored network's CIDR is accepted by
\* validate_cidr and every stored subnet's CIDR is accepted and contained,
\* per is_subnet_of, in its parent network's CIDR; and a request answered
\* 400 leaves the stored records unchanged.
C22_StoredCidrsValid ==
    /\ []StoredCidrsValid
    /\ [][(\E r \in RequestIds : Rejected(r))
            => UNCHANGED <<tenants, networks, subnets>>]_vars

\* C22 witness: a subnet is stored within its network, and a request for a
\* subnet outside it has been answered 400.
C22_Witness ==
    /\ \E sn \in subnets : \E n \in networks : n.id = sn.network_id
    /\ \E r \in RequestIds :
          /\ requests[r].kind = "create_subnet" /\ requests[r].status = 400
          /\ requests[r].error = "Subnet must be within the parent network CIDR"

\* C26: after any interleaving of concurrent create_tenant, create_network
\* and create_subnet requests no two stored tenants have the same name, no
\* two stored networks of one tenant have the same name and no two stored
\* subnets of one network have the same name.
C26_NamesUnique ==
    /\ \A t1 \in tenants : \A t2 \in tenants :
          t1.name = t2.name => t1 = t2
    /\ \A n1 \in networks : \A n2 \in networks :
          n1.tenant_id = n2.tenant_id /\ n1.name = n2.name => n1 = n2
    /\ \A s1 \in subnets : \A s2 \in subnets :
          s1.network_id = s2.network_id /\ s1.name = s2.name => s1 = s2

\* The run() call of the frame has ended by returning a value.
Returned == frame.pc = "done" /\ frame.returns \in {"True", "False"}

Last(seq) == seq[Len(seq)]

\* C27: after every call of BasePhase.run, a second or later call on the
\* same phase object included, the value returned equals the phase's
\* success flag, and the STATUS line written by phase_logger.end and the
\* final 'completed successfully' / 'failed' message agree with it.
C27_ReturnEqualsSuccess ==
    Returned =>
        /\ phase.success = (frame.returns = "True")
        /\ Last(phase_logger) =
               (IF frame.returns = "True" THEN "STATUS: SUCCESS" ELSE "STATUS: FAILED")
        /\ Last(logger) =
               (IF frame.returns = "True" THEN "completed successfully" ELSE "failed")

ProtocolOrder == <<"pre_check", "execute", "post_check">>

\* The hooks of the call were invoked in protocol order, each only after
\* the one before it returned true.
FollowsProtocol ==
    /\ Len(frame.hooks) <= 3
    /\ \A i \in DOMAIN frame.hooks :
         /\ frame.hooks[i].name = ProtocolOrder[i]
         /\ i > 1 => frame.hooks[i - 1].outcome = "True"

\* run() returns true only if all three hooks returned true.
TrueOnlyIfAllTrue ==
    (frame.pc = "done" /\ frame.returns = "True") =>
        /\ Len(frame.hooks) = 3
        /\ \A i \in DOMAIN frame.hooks : frame.hooks[i].outcome = "True"

\* On every path completed_at is set, and phase_logger.end is called
\* exactly once, after phase_logger.start: the log is START, STATUS per
\* call, the STATUS of the call in progress still to come.
EndOnceAfterStart ==
    /\ \A i \in DOMAIN phase_logger :
         (phase_logger[i] = "START") = (i % 2 = 1)
    /\ frame.pc \in {"pre_check", "execute", "post_check", "finally"} =>
         Len(phase_logger) = 2 * frame.call - 1
    /\ frame.pc = "done" =>
         /\ Len(phase_logger) = 2 * frame.call
         /\ phase.completed_at = frame.call
         /\ phase.started_at = frame.call

Raised(kinds) ==
    \E i \in DOMAIN frame.hooks : frame.hooks[i].outcome \in kinds

\* C28 as stated: run follows the protocol pre_check, execute, post_check,
\* returns true only if all three returned true, an exception raised by any
\* of the three makes run return false instead of propagating, and on every
\* path completed_at is set and phase_logger.end is called exactly once,
\* after phase_logger.start.
C28_EveryExceptionReturnsFalse ==
    /\ FollowsProtocol
    /\ TrueOnlyIfAllTrue
    /\ EndOnceAfterStart
    /\ (frame.pc = "done" /\ Raised({"Exception", "KeyboardInterrupt"})) =>
           frame.returns = "False"

\* C28, amended: the same, with only an exception derived from Exception
\* turned into a false return; a KeyboardInterrupt raised by a hook goes on
\* to the caller of run, after the finally block.
C28_RunProtocol ==
    /\ FollowsProtocol
    /\ TrueOnlyIfAllTrue
    /\ EndOnceAfterStart
    /\ (frame.pc = "done" /\ Raised({"Exception"})) => frame.returns = "False"
    /\ (frame.pc = "done" /\ Raised({"KeyboardInterrupt"})) =>
           frame.returns = "KeyboardInterrupt"

\* A second run in which execute was interrupted after pre_check passed:
\* the finally block has run and the interrupt goes on.
C28_Witness ==
    /\ frame.pc = "done" /\ frame.call = 2
    /\ frame.hooks = <<Hook("pre_check", "True"), Hook("execute", "KeyboardInterrupt")>>
    /\ frame.returns = "KeyboardInterrupt"
    /\ phase.completed_at = 2
    /\ Len(phase_logger) = 4


\* The entries of a list that name a phase, in the order of the list.
Known(phase_ids) == SelectSeq(phase_ids, LAMBDA p : p \in PhaseIds)

\* The phases started so far are the known ids among the entries the loop
\* has taken, in list order, and none is started twice.
StartedInListOrder ==
    /\ loop.started = Known(SubSeq(loop.phase_ids, 1, loop.i))
    /\ \A j, k \in DOMAIN loop.started :
         loop.started[j] = loop.started[k] => j = k

\* A phase was started after phase_id was.
StartedAfter(phase_id) ==
    \E j \in DOMAIN loop.started :
        loop.started[j] = phase_id /\ j < Len(loop.started)

ContinuedBy(phase_id, question) ==
    [phase |-> phase_id, question |-> question] \in loop.continued

\* A declined prompt has ended the run: the loop is left, by break or by
\* sys.exit(0), and the phase the prompt was about is the last one started.
DeclinedEndsRun ==
    loop.declined # "" =>
        /\ loop.pc \in {"returned", "exit"}
        /\ Len(loop.started) > 0
        /\ Last(loop.started) = loop.phase_ids[loop.i]

\* C29 as stated: run_phases starts the listed phases strictly in list
\* order, each at most once, skipping unknown ids; after a phase has failed
\* a later phase is started only if the installer is non-interactive or the
\* user answered yes to 'Continue to next phase?'; a declined prompt ends
\* the run with no later phase started.
C29_ContinuesOnlyOnYes ==
    /\ StartedInListOrder
    /\ DeclinedEndsRun
    /\ \A phase_id \in loop.failed :
         StartedAfter(phase_id) =>
             \/ ~installer.interactive
             \/ ContinuedBy(phase_id, "Continue to next phase?")

\* C29, amended: the same, with one more way past a failed phase in
\* interactive mode: the prompt 'Continue to next phase?' was interrupted
\* and the user answered yes to 'Continue installation?'.
C29_RunPhasesOrder ==
    /\ StartedInListOrder
    /\ DeclinedEndsRun
    /\ \A phase_id \in loop.failed :
         StartedAfter(phase_id) =>
             \/ ~installer.interactive
             \/ ContinuedBy(phase_id, "Continue to next phase?")
             \/ ContinuedBy(phase_id, "Continue installation?")

\* Interactive, a list with an unknown id: preflight failed, the user said
\* yes, the unknown id was passed over and network has been started.
C29_Witness ==
    /\ installer.interactive
    /\ loop.phase_ids = <<"preflight", UnknownPhase, "network">>
    /\ loop.started = <<"preflight", "network">>
    /\ loop.pc = "run"
    /\ loop.failed = {"preflight"}
    /\ ContinuedBy("preflight", "Continue to next phase?")

\* C30: in non-interactive mode no phase is started unless a configuration
\* was successfully loaded: with a missing or unreadable config file, or
\* with no config file and no saved configuration, run_non_interactive ends
\* without running any phase.
C30_NoPhaseWithoutConfig ==
    (loop.caller = "run_non_interactive" /\ ~installer.loaded) =>
        loop.started = << >>

=======================================================================
